---------------------------- MODULE Spec2Model ----------------------------
(***************************************************************************)
(* A model of cogni_sync_client/client.py: the CogniSyncClient class, its  *)
(* constructor and its six operations, together with the behaviour of the  *)
(* HTTP session each operation calls (the headers a request carries, the   *)
(* encoding of json= and params=, raise_for_status and Response.json).     *)
(*                                                                         *)
(* A request is what an operation hands to its session; a response is the  *)
(* final response the session hands back.                                  *)
(*                                                                         *)
(* Strings that the code only concatenates are TLA+ strings.  The base URL *)
(* is a sequence of one-character strings, because rstrip looks at its     *)
(* characters.  A JSON text is a sequence of tokens.  A Python value is a  *)
(* record tagged with its type.                                            *)
(***************************************************************************)
EXTENDS Integers, Sequences, FiniteSets, TLC

VARIABLES
    arg_base_url,   \* the base_url given to the constructor
    arg_api_key,    \* the api_key given to the constructor
    base_url,       \* self.base_url
    api_key,        \* self.api_key
    headers,        \* self.session.headers
    last,           \* the last call: operation, arguments, service, requests,
                    \* responses, outcome
    raised_before   \* TRUE when a call before the last one raised

vars == <<arg_base_url, arg_api_key, base_url, api_key, headers, last,
          raised_before>>

(***************************************************************************)
(* Bounds of the model.                                                    *)
(***************************************************************************)
\* the longest base_url the constructor is given
MaxUrlLen == 4
\* the most items of a list, a tuple or a dict of a payload
MaxItems == 2

(***************************************************************************)
(* Python values.                                                          *)
(***************************************************************************)
PyNone == [t |-> "none"]
PyBool(b) == [t |-> "bool", b |-> b]
PyInt(n) == [t |-> "int", n |-> n]
PyStr(s) == [t |-> "str", s |-> s]
PyList(items) == [t |-> "list", items |-> items]
PyTuple(items) == [t |-> "tuple", items |-> items]
\* a dict is its items in insertion order, the keys distinct
PyDict(items) == [t |-> "dict", items |-> items]

\* the keys of a dict
DictKeys(d) == {d.items[i][1] : i \in 1..Len(d.items)}

\* d[k], for a key k of d
DictGet(d, k) == d.items[CHOOSE i \in 1..Len(d.items) : d.items[i][1] = k][2]

\* d[k] = v: a new key goes last, a known key keeps its place
DictSet(d, k, v) ==
    IF k \in DictKeys(d)
    THEN PyDict([i \in 1..Len(d.items) |->
                    IF d.items[i][1] = k THEN <<k, v>> ELSE d.items[i]])
    ELSE PyDict(Append(d.items, <<k, v>>))

\* the number a bool or an int is
Num(x) == IF x.t = "bool" THEN (IF x.b THEN 1 ELSE 0) ELSE x.n

\* Python's ==, on the values of the model: True equals 1, a list never
\* equals a tuple, dicts are equal whatever the order of their items
RECURSIVE DeepEqual(_, _)
DeepEqual(x, y) ==
    IF x.t \in {"bool", "int"} /\ y.t \in {"bool", "int"} THEN Num(x) = Num(y)
    ELSE IF x.t # y.t THEN FALSE
    ELSE IF x.t \in {"list", "tuple"}
    THEN /\ Len(x.items) = Len(y.items)
         /\ \A i \in 1..Len(x.items) : DeepEqual(x.items[i], y.items[i])
    ELSE IF x.t = "dict"
    THEN /\ DictKeys(x) = DictKeys(y)
         /\ \A k \in DictKeys(x) : DeepEqual(DictGet(x, k), DictGet(y, k))
    ELSE x = y

\* a value json.loads can give back: no tuple in it, every dict key a str
RECURSIVE IsJsonNative(_)
IsJsonNative(v) ==
    CASE v.t = "tuple" -> FALSE
      [] v.t = "list" -> \A i \in 1..Len(v.items) : IsJsonNative(v.items[i])
      [] v.t = "dict" ->
            \A i \in 1..Len(v.items) :
                v.items[i][1].t = "str" /\ IsJsonNative(v.items[i][2])
      [] OTHER -> TRUE

(***************************************************************************)
(* JSON texts: sequences of tokens.                                        *)
(***************************************************************************)
\* the strings and the integers that occur in the values of the model
StrAtoms == {"a", "1", "ok", "status", "name", "X"}
IntAtoms == {1, 2}

Quote(s) == "\"" \o s \o "\""

\* json.dumps of a dict key: a str as it is, other keys by their JSON text
KeyText(k) ==
    CASE k.t = "str" -> k.s
      [] k.t = "int" -> ToString(k.n)
      [] k.t = "bool" -> IF k.b THEN "true" ELSE "false"
      [] k.t = "none" -> "null"

\* json.dumps(v), as the session calls it for json=v
RECURSIVE Dumps(_)
RECURSIVE DumpsItems(_)
RECURSIVE DumpsMembers(_)
Dumps(v) ==
    CASE v.t = "none" -> <<"null">>
      [] v.t = "bool" -> IF v.b THEN <<"true">> ELSE <<"false">>
      [] v.t = "int" -> <<ToString(v.n)>>
      [] v.t = "str" -> <<Quote(v.s)>>
      [] v.t \in {"list", "tuple"} -> <<"[">> \o DumpsItems(v.items) \o <<"]">>
      [] v.t = "dict" -> <<"{">> \o DumpsMembers(v.items) \o <<"}">>
DumpsItems(items) ==
    IF items = <<>> THEN <<>>
    ELSE IF Len(items) = 1 THEN Dumps(items[1])
    ELSE Dumps(items[1]) \o <<",">> \o DumpsItems(Tail(items))
DumpsMembers(items) ==
    IF items = <<>> THEN <<>>
    ELSE LET m == <<Quote(KeyText(items[1][1])), ":">> \o Dumps(items[1][2])
         IN  IF Len(items) = 1 THEN m
             ELSE m \o <<",">> \o DumpsMembers(Tail(items))

\* the result of parsing a prefix of a text
Parsed(v, rest) == [ok |-> TRUE, val |-> v, rest |-> rest]
Failed == [ok |-> FALSE, val |-> PyNone, rest |-> <<>>]

\* json.loads(text): ParseValue reads one value from the front of the text
RECURSIVE ParseValue(_)
RECURSIVE ParseItems(_, _)
RECURSIVE ParseMembers(_, _)
ParseValue(text) ==
    IF text = <<>> THEN Failed
    ELSE LET tok == Head(text)
             rest == Tail(text)
         IN  CASE tok = "null" -> Parsed(PyNone, rest)
               [] tok = "true" -> Parsed(PyBool(TRUE), rest)
               [] tok = "false" -> Parsed(PyBool(FALSE), rest)
               [] \E n \in IntAtoms : tok = ToString(n) ->
                    Parsed(PyInt(CHOOSE n \in IntAtoms : tok = ToString(n)), rest)
               [] \E s \in StrAtoms : tok = Quote(s) ->
                    Parsed(PyStr(CHOOSE s \in StrAtoms : tok = Quote(s)), rest)
               [] tok = "[" ->
                    IF rest # <<>> /\ Head(rest) = "]"
                    THEN Parsed(PyList(<<>>), Tail(rest))
                    ELSE ParseItems(rest, <<>>)
               [] tok = "{" ->
                    IF rest # <<>> /\ Head(rest) = "}"
                    THEN Parsed(PyDict(<<>>), Tail(rest))
                    ELSE ParseMembers(rest, PyDict(<<>>))
               [] OTHER -> Failed
\* the items of an array after "[" or ",": a value, then "," or "]"
ParseItems(text, acc) ==
    LET r == ParseValue(text)
    IN  IF ~r.ok \/ r.rest = <<>> THEN Failed
        ELSE IF Head(r.rest) = "]"
        THEN Parsed(PyList(Append(acc, r.val)), Tail(r.rest))
        ELSE IF Head(r.rest) = ","
        THEN ParseItems(Tail(r.rest), Append(acc, r.val))
        ELSE Failed
\* the members of an object after "{" or ",": a string, ":", a value, then
\* "," or "}"; a name that comes twice keeps its last value
ParseMembers(text, acc) ==
    IF Len(text) < 2 \/ text[2] # ":" THEN Failed
    ELSE IF ~(\E s \in StrAtoms : text[1] = Quote(s)) THEN Failed
    ELSE LET k == PyStr(CHOOSE s \in StrAtoms : text[1] = Quote(s))
             r == ParseValue(Tail(Tail(text)))
         IN  IF ~r.ok \/ r.rest = <<>> THEN Failed
             ELSE IF Head(r.rest) = "}"
             THEN Parsed(DictSet(acc, k, r.val), Tail(r.rest))
             ELSE IF Head(r.rest) = ","
             THEN ParseMembers(Tail(r.rest), DictSet(acc, k, r.val))
             ELSE Failed

\* json.loads(text): one value and nothing after it, else a decoding error
Loads(text) ==
    LET r == ParseValue(text)
    IN  IF r.ok /\ r.rest = <<>> THEN r ELSE Failed


(***************************************************************************)
(* Strings.                                                                *)
(***************************************************************************)
\* the characters of the base URLs of the model
UrlChars == {"h", ":", "/"}

\* the string a sequence of characters spells
RECURSIVE Text(_)
Text(chars) == IF chars = <<>> THEN "" ELSE Head(chars) \o Text(Tail(chars))

\* rstrip changed to drop one trailing character at most
rstrip_once(s, chars) ==
    IF s # <<>> /\ s[Len(s)] \in chars THEN SubSeq(s, 1, Len(s) - 1) ELSE s

\* str.rstrip(chars): the string without its trailing characters of chars
RECURSIVE rstrip(_, _)
rstrip(s, chars) ==
    IF s # <<>> /\ s[Len(s)] \in chars
    THEN rstrip(SubSeq(s, 1, Len(s) - 1), chars)
    ELSE s

(***************************************************************************)
(* The constructor.                                                        *)
(***************************************************************************)
\* the headers of a new requests.Session()
DefaultHeaders ==
    [h \in {"User-Agent", "Accept-Encoding", "Accept", "Connection"} |->
        CASE h = "User-Agent" -> "python-requests"
          [] h = "Accept-Encoding" -> "gzip, deflate"
          [] h = "Accept" -> "*/*"
          [] h = "Connection" -> "keep-alive"]

\* dict.update: the entries of new replace or extend those of old
update(old, new) ==
    [h \in DOMAIN old \cup DOMAIN new |->
        IF h \in DOMAIN new THEN new[h] ELSE old[h]]

\* AuthHeaders changed to give x-api-key the value of Authorization
AuthHeaders_bearer_twice(key) ==
    [h \in {"Authorization", "x-api-key", "Content-Type"} |->
        CASE h = "Authorization" -> "Bearer " \o key
          [] h = "x-api-key" -> "Bearer " \o key
          [] h = "Content-Type" -> "application/json"]

\* the three headers the constructor sets on the session
AuthHeaders(key) ==
    [h \in {"Authorization", "x-api-key", "Content-Type"} |->
        CASE h = "Authorization" -> "Bearer " \o key
          [] h = "x-api-key" -> key
          [] h = "Content-Type" -> "application/json"]

\* CogniSyncClient(base_url, api_key): the fields of the new client
CogniSyncClient(base_url_arg, api_key_arg) ==
    [base_url |-> rstrip(base_url_arg, {"/"}),
     api_key |-> api_key_arg,
     headers |-> update(DefaultHeaders, AuthHeaders(api_key_arg))]

(***************************************************************************)
(* The session: what a request carries.                                    *)
(***************************************************************************)
\* str(v) of a query parameter's value
ParamText(v) ==
    CASE v.t = "str" -> v.s
      [] v.t = "int" -> ToString(v.n)
      [] v.t = "bool" -> IF v.b THEN "True" ELSE "False"

\* the query of a request for params=params: nothing for None, else one
\* (key, text) pair for each item of the mapping whose value is not None,
\* in the order of the mapping
RECURSIVE EncodeItems(_)
EncodeItems(items) ==
    IF items = <<>> THEN <<>>
    ELSE (IF items[1][2] = PyNone THEN <<>>
          ELSE << <<items[1][1].s, ParamText(items[1][2])>> >>)
         \o EncodeItems(Tail(items))
EncodeParams(params) ==
    IF params = PyNone THEN <<>> ELSE EncodeItems(params.items)

\* the body of a request for json=json: none for None, else json.dumps
EncodeJson(json) ==
    IF json = PyNone THEN [present |-> FALSE, text |-> <<>>]
    ELSE [present |-> TRUE, text |-> Dumps(json)]

\* the headers of a request: those of the session, and a Content-Type for
\* a JSON body when the session names none
RequestHeaders(session_headers, json) ==
    IF json # PyNone /\ "Content-Type" \notin DOMAIN session_headers
    THEN update(session_headers,
                [h \in {"Content-Type"} |-> "application/json"])
    ELSE session_headers

\* the request session.request(method, url, params=params, json=json) sends
Request(method, url, params, json) ==
    [method |-> method,
     url |-> url,
     query |-> EncodeParams(params),
     body |-> EncodeJson(json),
     headers |-> RequestHeaders(headers, json)]

(***************************************************************************)
(* The remote service, as it answers one call.                             *)
(***************************************************************************)
\* a service that cannot be reached
Down == [mode |-> "down"]
\* a service that answers every request with one status and one body
Static(status, body) == [mode |-> "static", status |-> status, body |-> body]
\* a service that answers with one status and the body of the request
Echo(status) == [mode |-> "echo", status |-> status]

\* the response of the service srv to the request req
Respond(srv, req) ==
    [status |-> srv.status,
     body |-> IF srv.mode = "echo" THEN req.body.text ELSE srv.body]

\* Send changed to send the request a second time when the first try got
\* no response or an error status
Send_retry(srv, req) ==
    IF srv.mode = "down" THEN [requests |-> <<req, req>>, responses |-> <<>>]
    ELSE IF srv.status >= 400
    THEN [requests |-> <<req, req>>, responses |-> <<Respond(srv, req)>>]
    ELSE [requests |-> <<req>>, responses |-> <<Respond(srv, req)>>]

\* what the session does with a request: it sends it once; the service
\* answers, or the connection fails and there is no response
Send(srv, req) ==
    [requests |-> <<req>>,
     responses |-> IF srv.mode = "down" THEN <<>> ELSE <<Respond(srv, req)>>]

\* session_get changed to leave params out
session_get_no_params(srv, url, params) ==
    Send(srv, Request("GET", url, PyNone, PyNone))

\* session_post changed to leave json out
session_post_no_json(srv, url, json) ==
    Send(srv, Request("POST", url, PyNone, PyNone))

\* self.session.get(url, params=params)
session_get(srv, url, params) ==
    Send(srv, Request("GET", url, params, PyNone))
\* self.session.post(url, json=data)
session_post(srv, url, json) ==
    Send(srv, Request("POST", url, PyNone, json))
\* self.session.put(url, json=data)
session_put(srv, url, json) ==
    Send(srv, Request("PUT", url, PyNone, json))
\* self.session.delete(url)
session_delete(srv, url) ==
    Send(srv, Request("DELETE", url, PyNone, PyNone))

(***************************************************************************)
(* The end of every operation: raise_for_status, then json.                *)
(***************************************************************************)
Returned(v) == [kind |-> "returned", value |-> v]
Raised(e) == [kind |-> "raised", error |-> e]

\* raise_for_status changed to raise for server errors only
raise_for_status_5xx(resp) == 500 <= resp.status /\ resp.status < 600

\* raise_for_status changed to raise for every status that is not 2xx
raise_for_status_not_2xx(resp) == ~(200 <= resp.status /\ resp.status < 300)

\* resp.raise_for_status() raises: the status is a client or a server error
raise_for_status(resp) == 400 <= resp.status /\ resp.status < 600

\* json changed to give an empty dict for a body that is no object
json_object_or_empty(resp) ==
    LET r == Loads(resp.body)
    IN  IF ~r.ok THEN Raised("JSONDecodeError")
        ELSE IF r.val.t = "dict" THEN Returned(r.val)
        ELSE Returned(PyDict(<<>>))

\* json changed to give None for a body that cannot be decoded
json_or_none(resp) ==
    LET r == Loads(resp.body)
    IN  IF r.ok THEN Returned(r.val) ELSE Returned(PyNone)

\* resp.json(): the decoded body, or a decoding error
json(resp) ==
    LET r == Loads(resp.body)
    IN  IF r.ok THEN Returned(r.val) ELSE Raised("JSONDecodeError")

\* how a call ends once the session has sent its request
Finish(exchange) ==
    IF exchange.responses = <<>> THEN Raised("ConnectionError")
    ELSE LET resp == exchange.responses[1]
         IN  IF raise_for_status(resp) THEN Raised("HTTPError")
             ELSE json(resp)

\* the record of a call: its operation and arguments, the service that
\* answered, what the session sent and received, how the call ended
Call(args, srv, exchange) ==
    args @@ [server |-> srv,
             requests |-> exchange.requests,
             responses |-> exchange.responses,
             outcome |-> Finish(exchange)]

NoCall ==
    [op |-> "none", server |-> Down, requests |-> <<>>, responses |-> <<>>,
     outcome |-> [kind |-> "none"]]

\* what a call leaves alone: the client
Step ==
    /\ raised_before' = (raised_before \/ last.outcome.kind = "raised")
    /\ UNCHANGED <<arg_base_url, arg_api_key, base_url, api_key, headers>>

(***************************************************************************)
(* The six operations.                                                     *)
(***************************************************************************)
health(srv) ==
    /\ LET url == Text(base_url) \o "/api/v1/health"
       IN  last' = Call([op |-> "health"], srv, session_get(srv, url, PyNone))
    /\ Step

get_entity(srv, entity_id) ==
    /\ LET url == Text(base_url) \o "/api/v1/entities/" \o entity_id
       IN  last' = Call([op |-> "get_entity", entity_id |-> entity_id], srv,
                        session_get(srv, url, PyNone))
    /\ Step

list_entities(srv, params) ==
    /\ LET url == Text(base_url) \o "/api/v1/entities"
       IN  last' = Call([op |-> "list_entities", params |-> params], srv,
                        session_get(srv, url, params))
    /\ Step

create_entity(srv, data) ==
    /\ LET url == Text(base_url) \o "/api/v1/entities"
       IN  last' = Call([op |-> "create_entity", data |-> data], srv,
                        session_post(srv, url, data))
    /\ Step

\* update_entity changed to PUT to the URL of the collection
update_entity_no_id(srv, entity_id, data) ==
    /\ LET url == Text(base_url) \o "/api/v1/entities"
       IN  last' = Call([op |-> "update_entity", entity_id |-> entity_id,
                         data |-> data], srv,
                        session_put(srv, url, data))
    /\ Step

update_entity(srv, entity_id, data) ==
    /\ LET url == Text(base_url) \o "/api/v1/entities/" \o entity_id
       IN  last' = Call([op |-> "update_entity", entity_id |-> entity_id,
                         data |-> data], srv,
                        session_put(srv, url, data))
    /\ Step

delete_entity(srv, entity_id) ==
    /\ LET url == Text(base_url) \o "/api/v1/entities/" \o entity_id
       IN  last' = Call([op |-> "delete_entity", entity_id |-> entity_id], srv,
                        session_delete(srv, url))
    /\ Step

(***************************************************************************)
(* The inputs of the model.                                                *)
(***************************************************************************)
ApiKeys == {"k1", "k2"}
\* the base URLs of the clients whose calls are followed
BaseUrlArgs == {<<"h", "/">>}
\* every base URL of at most MaxUrlLen characters
UrlInputs == UNION {[1..n -> UrlChars] : n \in 0..MaxUrlLen}
\* entity ids; an id may hold a slash
EntityIds == {"e1", "e/2"}

NameX == PyDict(<< <<PyStr("name"), PyStr("X")>> >>)
StatusOk == PyDict(<< <<PyStr("status"), PyStr("ok")>> >>)

\* the params arguments of list_entities
ParamArgs ==
    {PyNone,
     PyDict(<< <<PyStr("type"), PyStr("person")>> >>),
     PyDict(<< <<PyStr("type"), PyStr("person")>>, <<PyStr("page"), PyInt(2)>> >>),
     PyDict(<< <<PyStr("type"), PyNone>> >>)}

\* the data arguments of create_entity and update_entity
DataArgs == {NameX, PyList(<<PyInt(1)>>)}

\* the JSON values of the model's services: those a service answers with
\* of its own, and those it echoes
ServedValues == {StatusOk, PyList(<<>>), PyList(<<NameX>>), PyNone}
JsonValues == ServedValues \cup DataArgs
\* bodies that are no JSON text: empty, cut short
BadBodies == {<<>>, <<"{">>}
Bodies == {Dumps(j) : j \in ServedValues} \cup BadBodies

\* the statuses raise_for_status raises for, and the others
ErrorStatuses == {400, 404, 500, 599}
OtherStatuses == {100, 200, 204, 304, 399}

Servers ==
    {Down}
    \cup {Static(s, b) : s \in ErrorStatuses, b \in {Dumps(StatusOk), <<>>}}
    \cup {Static(s, b) : s \in OtherStatuses, b \in Bodies}
    \cup {Echo(s) : s \in {200, 404}}

\* payloads of every shape: scalars, then lists, tuples and dicts of at most
\* MaxItems scalars, then each of these wrapped once more
ValueAtoms == {PyNone, PyBool(TRUE), PyInt(1), PyStr("a")}
KeyAtoms == {PyStr("a"), PyStr("1"), PyInt(1)}
ItemSeqs(S) == UNION {[1..n -> S] : n \in 0..MaxItems}
DictItemSeqs(S) ==
    {items \in ItemSeqs(KeyAtoms \X S) :
        \A i, j \in 1..Len(items) : items[i][1] = items[j][1] => i = j}
Containers(S) ==
    {PyList(items) : items \in ItemSeqs(S)}
    \cup {PyTuple(items) : items \in ItemSeqs(S)}
    \cup {PyDict(items) : items \in DictItemSeqs(S)}
Flat == ValueAtoms \cup Containers(ValueAtoms)
Wrapped ==
    {PyList(<<v>>) : v \in Flat} \cup {PyTuple(<<v>>) : v \in Flat}
    \cup {PyDict(<< <<k, v>> >>) : k \in KeyAtoms, v \in Flat}
JsonPayloads == Flat \cup Wrapped

(***************************************************************************)
(* The specifications.                                                     *)
(***************************************************************************)
\* the state of a client just constructed from (b, k)
Constructed(b, k) ==
    /\ arg_base_url = b
    /\ arg_api_key = k
    /\ base_url = CogniSyncClient(b, k).base_url
    /\ api_key = CogniSyncClient(b, k).api_key
    /\ headers = CogniSyncClient(b, k).headers
    /\ last = NoCall
    /\ raised_before = FALSE

\* a new client replaces the old one
Construct(b, k) ==
    /\ arg_base_url' = b
    /\ arg_api_key' = k
    /\ base_url' = CogniSyncClient(b, k).base_url
    /\ api_key' = CogniSyncClient(b, k).api_key
    /\ headers' = CogniSyncClient(b, k).headers
    /\ last' = NoCall
    /\ raised_before' = FALSE

\* a new client is constructed from the stored base URL of the old one
Reconstruct == \E k \in ApiKeys : Construct(base_url, k)

\* The calls of a client, each answered by some service.
Init == \E b \in BaseUrlArgs, k \in ApiKeys : Constructed(b, k)

Next ==
    \/ \E srv \in Servers : health(srv)
    \/ \E srv \in Servers, entity_id \in EntityIds : get_entity(srv, entity_id)
    \/ \E srv \in Servers, params \in ParamArgs : list_entities(srv, params)
    \/ \E srv \in Servers, data \in DataArgs : create_entity(srv, data)
    \/ \E srv \in Servers, entity_id \in EntityIds, data \in DataArgs :
           update_entity(srv, entity_id, data)
    \/ \E srv \in Servers, entity_id \in EntityIds : delete_entity(srv, entity_id)

Spec == Init /\ [][Next]_vars

\* The constructor on every base URL.
InitNorm == \E b \in UrlInputs, k \in ApiKeys : Constructed(b, k)

NextNorm ==
    \/ Reconstruct
    \/ \E b \in UrlInputs, k \in ApiKeys : Construct(b, k)

SpecNorm == InitNorm /\ [][NextNorm]_vars

\* The first create_entity of a client against an echoing service, on
\* payloads of every shape.
InitJson == Constructed(<<"h">>, "k1")

NextJson ==
    /\ last.op = "none"
    /\ \E srv \in {Echo(200), Echo(201)}, data \in JsonPayloads :
           create_entity(srv, data)

SpecJson == InitJson /\ [][NextJson]_vars

(***************************************************************************)
(* The claims.                                                             *)
(***************************************************************************)
\* a call has been made
Called == last.op # "none"
\* the service answered the last call
Answered == Called /\ last.responses # <<>>
\* the status and the body of the answer to the last call
AnswerStatus == last.responses[1].status
AnswerBody == last.responses[1].body
\* the call ended by returning a value, or by raising the error e
HasReturned == last.outcome.kind = "returned"
HasRaised(e) == last.outcome.kind = "raised" /\ last.outcome.error = e

\* C1: whatever the operation, when the service answers with a status in
\* 400..599 the call ends by raising an HTTP error and returns no value.
C1_ErrorStatusRaises ==
    (Called /\ last.server.mode # "down" /\ last.server.status \in 400..599)
        => (HasRaised("HTTPError") /\ ~HasReturned)

\* C1 witness: delete_entity answered 404 with a JSON body has raised.
C1_Witness ==
    /\ last.op = "delete_entity"
    /\ Answered
    /\ AnswerStatus = 404
    /\ AnswerBody = <<"{", "\"status\"", ":", "\"ok\"", "}">>
    /\ HasRaised("HTTPError")

\* C2 as stated: a call returns a value only when the final status is 2xx.
C2_ReturnsOnly2xx ==
    (Answered /\ HasReturned) => AnswerStatus \in 200..299

\* C2 amended: a status is surfaced as an HTTP error exactly when it is in
\* 400..599; a call returns a value only when the final status is outside
\* 400..599, which a 1xx or 3xx final status is.
C2_ErrorExactlyFor4xx5xx ==
    Answered =>
        /\ HasRaised("HTTPError") <=> AnswerStatus \in 400..599
        /\ HasReturned => AnswerStatus \notin 400..599

\* C2 witness: a call answered 304 with a JSON body has returned a value.
C2_Witness ==
    /\ Answered
    /\ AnswerStatus = 304
    /\ HasReturned

\* the three headers of the credential key are in the mapping h
CarriesAuth(h, key) ==
    /\ {"Authorization", "x-api-key", "Content-Type"} \subseteq DOMAIN h
    /\ h["Authorization"] = "Bearer " \o key
    /\ h["x-api-key"] = key
    /\ h["Content-Type"] = "application/json"

\* the session and every request of the last call carry the headers of the
\* api_key the client was constructed with
HeadersOfKey ==
    /\ api_key = arg_api_key
    /\ CarriesAuth(headers, arg_api_key)
    /\ \A i \in 1..Len(last.requests) :
           CarriesAuth(last.requests[i].headers, arg_api_key)

\* C3: for a client constructed with api_key K, every request of every
\* operation, after any calls before it, carries Authorization = Bearer K,
\* x-api-key = K and Content-Type = application/json, and no operation
\* changes the session's headers, the stored api_key or the stored base_url.
C3_HeadersFixed ==
    /\ []HeadersOfKey
    /\ [][UNCHANGED <<headers, api_key, base_url>>]_vars

\* C3 witness: after a call that raised, a create_entity of the client of
\* key k2 has sent its request with the headers of k2.
C3_Witness ==
    /\ raised_before
    /\ last.op = "create_entity"
    /\ arg_api_key = "k2"
    /\ Len(last.requests) = 1
    /\ last.requests[1].headers["Authorization"] = "Bearer k2"
    /\ last.requests[1].headers["x-api-key"] = "k2"

\* the URL of the entity of an id
EntityUrl(entity_id) == Text(base_url) \o "/api/v1/entities/" \o entity_id

\* C4: each operation sends the verb and the URL of the table, the URL
\* being the stored base URL followed by the path with the id put in as it
\* is: get_entity, update_entity and delete_entity of one id send to one URL.
C4_VerbAndUrl ==
    Called =>
        /\ Len(last.requests) >= 1
        /\ LET req == last.requests[1]
               base == Text(base_url)
           IN  CASE last.op = "health" ->
                      req.method = "GET" /\ req.url = base \o "/api/v1/health"
                 [] last.op = "list_entities" ->
                      req.method = "GET" /\ req.url = base \o "/api/v1/entities"
                 [] last.op = "create_entity" ->
                      req.method = "POST" /\ req.url = base \o "/api/v1/entities"
                 [] last.op = "get_entity" ->
                      req.method = "GET" /\ req.url = EntityUrl(last.entity_id)
                 [] last.op = "update_entity" ->
                      req.method = "PUT" /\ req.url = EntityUrl(last.entity_id)
                 [] last.op = "delete_entity" ->
                      req.method = "DELETE" /\ req.url = EntityUrl(last.entity_id)

\* C4 witness: update_entity of the id e/2, on the client of base URL "h/",
\* has sent a PUT to h/api/v1/entities/e/2.
C4_Witness ==
    /\ last.op = "update_entity"
    /\ last.entity_id = "e/2"
    /\ arg_base_url = <<"h", "/">>
    /\ last.requests[1].method = "PUT"
    /\ last.requests[1].url = "h/api/v1/entities/e/2"

\* s does not end with a slash
NoTrailingSlash(s) == s = <<>> \/ s[Len(s)] # "/"

\* C5: whatever base_url the constructor is given, the stored base URL does
\* not end with a slash, it is the input when the input does not end with a
\* slash, and a client constructed from a stored base URL stores the same.
C5_BaseUrlNormalized ==
    /\ [](NoTrailingSlash(base_url)
          /\ (NoTrailingSlash(arg_base_url) => base_url = arg_base_url))
    /\ [][arg_base_url' = base_url => base_url' = base_url]_vars

\* C5 witness: the input "h//" is stored as "h".
C5_Witness ==
    /\ arg_base_url = <<"h", "/", "/">>
    /\ base_url = <<"h">>

\* the answer to the last call has a success status
Success == Answered /\ AnswerStatus \in 200..299

\* C6: whatever the operation, when the service answers with a success
\* status and the JSON text of a value, object or array, the call returns
\* that value unchanged; health answered 200 {"status": "ok"} returns a
\* mapping with the key status, list_entities a list or a mapping as sent.
C6_ReturnsDecodedBody ==
    /\ \A j \in JsonValues :
           (Success /\ AnswerBody = Dumps(j)) =>
               (HasReturned /\ last.outcome.value = j)
    /\ (last.op = "health" /\ Success
            /\ AnswerBody = <<"{", "\"status\"", ":", "\"ok\"", "}">>) =>
           (HasReturned /\ PyStr("status") \in DictKeys(last.outcome.value))
    /\ (last.op = "list_entities" /\ Success
            /\ AnswerBody = <<"[", "{", "\"name\"", ":", "\"X\"", "}", "]">>) =>
           (HasReturned /\ last.outcome.value = PyList(<<NameX>>))

\* C6 witness: list_entities answered 200 with the array [{"name": "X"}]
\* has returned the list of that one mapping.
C6_Witness ==
    /\ last.op = "list_entities"
    /\ Success
    /\ AnswerStatus = 200
    /\ AnswerBody = <<"[", "{", "\"name\"", ":", "\"X\"", "}", "]">>
    /\ HasReturned
    /\ last.outcome.value.t = "list"
    /\ last.outcome.value.items[1] = NameX

\* create_entity was answered by an echoing service with a success status
Echoed ==
    /\ last.op = "create_entity"
    /\ last.server.mode = "echo"
    /\ last.server.status \in 200..299

\* the round trip of the payload of the last call: the body of the request
\* is the JSON text of the payload and the value returned equals the payload
RoundTrip ==
    /\ Len(last.requests) = 1
    /\ last.requests[1].method = "POST"
    /\ last.requests[1].body.present
    /\ last.requests[1].body.text = Dumps(last.data)
    /\ HasReturned
    /\ DeepEqual(last.outcome.value, last.data)

\* C7 as stated: for every payload json.dumps accepts, create_entity sends
\* the payload as its JSON body and, echoed, returns a value equal to it.
C7_RoundTripAnyPayload == Echoed => RoundTrip

\* C7 amended: the round trip holds for every payload other than None that
\* is made of None, booleans, integers, strings, lists and dicts whose keys
\* are strings (no tuple, no key that is not a string).
C7_RoundTripJsonNative ==
    (Echoed /\ last.data # PyNone /\ IsJsonNative(last.data)) => RoundTrip

\* C7 witness: the payload {"a": [1, "a"]} has come back as it was sent.
C7_Witness ==
    /\ Echoed
    /\ last.data = PyDict(<< <<PyStr("a"), PyList(<<PyInt(1), PyStr("a")>>)>> >>)
    /\ last.requests[1].body.text =
           <<"{", "\"a\"", ":", "[", "1", ",", "\"a\"", "]", "}">>
    /\ HasReturned
    /\ last.outcome.value = last.data

\* the items of the params of the last call whose value is not None
SentItems == SelectSeq(last.params.items, LAMBDA item : item[2] # PyNone)

\* C8 as stated: every key of the mapping given to list_entities is the key
\* of a query parameter of the request.
C8_EveryPairForwarded ==
    (last.op = "list_entities" /\ last.params # PyNone) =>
        \A k \in DictKeys(last.params) :
            \E i \in 1..Len(last.requests[1].query) :
                last.requests[1].query[i][1] = k.s

\* C8 amended: list_entities sends, in order, key=value for every item of
\* the mapping whose value is a string or a number, and leaves out an item
\* whose value is None; without an argument it sends no query parameter, and
\* no other operation sends one.
C8_ScalarPairsForwarded ==
    Called =>
        /\ Len(last.requests) = 1
        /\ IF last.op = "list_entities" /\ last.params # PyNone
           THEN /\ Len(last.requests[1].query) = Len(SentItems)
                /\ \A i \in 1..Len(SentItems) :
                       last.requests[1].query[i] =
                           <<SentItems[i][1].s,
                             IF SentItems[i][2].t = "int"
                             THEN ToString(SentItems[i][2].n)
                             ELSE SentItems[i][2].s>>
                /\ last.requests[1].method = "GET"
           ELSE last.requests[1].query = <<>>
        /\ (last.op = "list_entities"
                /\ last.params = PyDict(<< <<PyStr("type"), PyStr("person")>> >>))
               => last.requests[1].query = << <<"type", "person">> >>

\* C8 witness: list_entities({"type": "person", "page": 2}) has sent
\* type=person and page=2.
C8_Witness ==
    /\ last.op = "list_entities"
    /\ last.params # PyNone
    /\ Len(last.params.items) = 2
    /\ last.requests[1].query = << <<"type", "person">>, <<"page", "2">> >>

\* what the caller gave the call l: the operation, the arguments, the service
Inputs(l) == [x \in DOMAIN l \ {"requests", "responses", "outcome"} |-> l[x]]

\* the last call sent one request and ended
OneRequest ==
    Called =>
        /\ Len(last.requests) = 1
        /\ Len(last.responses) <= 1
        /\ last.outcome.kind \in {"returned", "raised"}

C10_UndecodableBodyRaises ==
    (Success /\ AnswerBody \in BadBodies) =>
        (HasRaised("JSONDecodeError") /\ ~HasReturned)

\* C10 witness: delete_entity answered 204 with an empty body has raised a
\* decoding error.
C10_Witness ==
    /\ last.op = "delete_entity"
    /\ Answered
    /\ AnswerStatus = 204
    /\ AnswerBody = <<>>
    /\ HasRaised("JSONDecodeError")

=============================================================================
